---- MODULE Spec2Model ----
(***************************************************************************)
(* Model of the Primer Webscraper API (src/main.py): a FastAPI service     *)
(* with GET /health and an authenticated POST /crawl whose handler         *)
(* normalises the client configuration and calls the crawl4ai engine in a  *)
(* bounded retry loop.  One uvicorn process runs one asyncio event loop:   *)
(* handlers interleave at their awaits, and a blocking call made by a      *)
(* handler holds the loop's thread.                                        *)
(***************************************************************************)
EXTENDS Integers, Sequences, FiniteSets, TLC

\* ------------------------------------------------------------------ bounds
NumRequests == 2
Requests == 1..NumRequests

\* ------------------------------------------------------- program constants
max_retries_six == 5 + 1

max_retries == 5
SLEEP_SECONDS == 5
PRIMER_API_TOKEN == "secret"

\* Python's None.  Mappings are records, so None is a record no mapping equals.
None == [py_none |-> TRUE]

IsNone(x) == "py_none" \in DOMAIN x

\* dict.get(key, default)
Get(d, key, default) == IF key \in DOMAIN d THEN d[key] ELSE default

\* ------------------------------------------------------------ HTTP inputs
\* Authorization headers a client may send: none, a non-bearer scheme, a
\* bearer token that differs from the secret, the secret itself.
Authorizations ==
    { [present |-> FALSE, scheme |-> "", credentials |-> ""],
      [present |-> TRUE, scheme |-> "Basic", credentials |-> PRIMER_API_TOKEN],
      [present |-> TRUE, scheme |-> "Bearer", credentials |-> "wrong"],
      [present |-> TRUE, scheme |-> "Bearer", credentials |-> PRIMER_API_TOKEN] }

FullContentFilter == [threshold |-> 5]
FullMarkdownGenerator == [ignore_links |-> FALSE]

\* JSON bodies of POST /crawl.  A body without url violates the schema; the
\* two configuration mappings are optional in the schema.
Bodies ==
    { [browser_config |-> [headless |-> TRUE]],
      [url |-> "u"],
      [url |-> "u", browser_config |-> [headless |-> TRUE]],
      [url |-> "u", browser_config |-> [headless |-> TRUE],
                    crawler_config |-> [cache_mode |-> "bypass",
                                       content_filter |-> FullContentFilter]],
      [url |-> "u", browser_config |-> [headless |-> TRUE],
                    crawler_config |-> [content_filter |-> FullContentFilter,
                                       markdown_generator |-> FullMarkdownGenerator]],
      [url |-> "u", browser_config |-> [headless |-> TRUE],
                    crawler_config |-> [cache_mode |-> "bypass",
                                       content_filter |-> FullContentFilter,
                                       markdown_generator |-> FullMarkdownGenerator]] }

FullBody == [url |-> "u", browser_config |-> [headless |-> TRUE],
                         crawler_config |-> [cache_mode |-> "bypass",
                                            content_filter |-> FullContentFilter,
                                            markdown_generator |-> FullMarkdownGenerator]]

\* The POST /crawl requests clients send: every body with the right token,
\* and every other header with a schema-valid and a schema-invalid body.
CrawlInputs ==
    { [authorization |-> a, body |-> b] : a \in Authorizations, b \in Bodies }
    \ { x \in [authorization : Authorizations, body : Bodies] :
            /\ x.authorization.credentials # PRIMER_API_TOKEN \/ x.authorization.scheme # "Bearer"
            /\ x.body # FullBody
            /\ "url" \in DOMAIN x.body }

\* ---------------------------------------------------------------- schema
\* class CrawlRequest(BaseModel): url is required, both mappings default to
\* None.
SchemaValid(body) == "url" \in DOMAIN body

CrawlRequest(body) ==
    [url |-> body.url,
     browser_config |-> Get(body, "browser_config", None),
     crawler_config |-> Get(body, "crawler_config", None)]

\* str.lower() on the scheme words that occur.
Lower(s) == CASE s = "Bearer" -> "bearer"
              [] s = "Basic" -> "basic"
              [] OTHER -> s

\* ------------------------------------------------- configuration (38-78)
\* Values of crawl4ai's CacheMode enum; CacheMode(x) raises ValueError for
\* any other x, None included.
CacheModes == {"enabled", "disabled", "read_only", "write_only", "bypass"}

DefaultExcludedTags ==
    <<"form", "nav", "footer", "header", "aside", "script", "style", "iframe">>

BrowserConfig(bc) ==
    [verbose |-> Get(bc, "verbose", TRUE),
     headless |-> Get(bc, "headless", FALSE),
     text_mode |-> Get(bc, "text_mode", TRUE)]

PruningContentFilter(cf) ==
    [threshold |-> Get(cf, "threshold", 9),   \* tenths: 0.9
     threshold_type |-> Get(cf, "threshold_type", "dynamic"),
     min_word_threshold |-> Get(cf, "min_word_threshold", 50)]

DefaultMarkdownGenerator(mg) ==
    [ignore_links |-> Get(mg, "ignore_links", TRUE),
     ignore_images |-> Get(mg, "ignore_images", TRUE),
     escape_html |-> Get(mg, "escape_html", TRUE)]

CrawlerRunConfig(cc, prune_filter, md_generator) ==
    [cache_mode |-> cc.cache_mode,
     verbose |-> Get(cc, "verbose", TRUE),
     wait_until |-> Get(cc, "wait_until", "load"),
     only_text |-> Get(cc, "only_text", TRUE),
     excluded_tags |-> Get(cc, "excluded_tags", DefaultExcludedTags),
     exclude_external_links |-> Get(cc, "exclude_external_links", TRUE),
     exclude_social_media_links |-> Get(cc, "exclude_social_media_links", TRUE),
     exclude_external_images |-> Get(cc, "exclude_external_images", TRUE),
     remove_overlay_elements |-> Get(cc, "remove_overlay_elements", TRUE),
     page_timeout |-> Get(cc, "page_timeout", 180000),
     content_filter |-> prune_filter,
     markdown_generator |-> md_generator]

\* The statements of crawl() before the loop, in order.  The first one that
\* raises ends the normalisation: x.get on None is an AttributeError,
\* CacheMode(None) and CacheMode(<unknown>) a ValueError.
Normalize(request) ==
    LET bc == request.browser_config
        cc == request.crawler_config
        cf == Get(cc, "content_filter", None)
        mg == Get(cc, "markdown_generator", None)
        failed(e, l) == [error |-> e, line |-> l,
                         browser_config |-> None, crawler_config |-> None]
    IN  IF IsNone(bc) THEN failed("AttributeError", 39)
        ELSE IF IsNone(cc) THEN failed("AttributeError", 47)
        ELSE IF IsNone(cf) THEN failed("AttributeError", 49)
        ELSE IF IsNone(mg) THEN failed("AttributeError", 58)
        ELSE IF ~("cache_mode" \in DOMAIN cc /\ cc.cache_mode \in CacheModes)
             THEN failed("ValueError", 66)
        ELSE [error |-> "none", line |-> 0,
              browser_config |-> BrowserConfig(bc),
              crawler_config |-> CrawlerRunConfig(cc, PruningContentFilter(cf),
                                                  DefaultMarkdownGenerator(mg))]

\* ------------------------------------------------------------ crawl engine
\* What one crawler.arun(...) call can do: raise, or return a CrawlResult.
\* crawl4ai declares metadata and markdown_v2 as optional fields of
\* CrawlResult, so a result with success=True may carry None in either.
\* NoValue is None where the value is otherwise a string.
NoValue == "None"

MetadataA == ("og:title" :> "T") @@ ("og:type" :> "article") @@ ("author" :> "A")
MetadataB == ("og:description" :> "D") @@ ("keywords" :> "K")

CrawlResults ==
    { [success |-> FALSE, error_message |-> "blocked", status_code |-> 403,
       metadata |-> None, markdown_v2 |-> None],
      [success |-> TRUE, error_message |-> NoValue, status_code |-> 200,
       metadata |-> MetadataA, markdown_v2 |-> [raw_markdown |-> "md1"]],
      [success |-> TRUE, error_message |-> NoValue, status_code |-> 200,
       metadata |-> MetadataB, markdown_v2 |-> [raw_markdown |-> "md2"]],
      [success |-> TRUE, error_message |-> NoValue, status_code |-> 200,
       metadata |-> None, markdown_v2 |-> [raw_markdown |-> "md1"]],
      [success |-> TRUE, error_message |-> NoValue, status_code |-> 200,
       metadata |-> MetadataA, markdown_v2 |-> None] }

NoResult == [success |-> FALSE, error_message |-> NoValue, status_code |-> 0,
             metadata |-> None, markdown_v2 |-> None]

EngineOutcomes == {[raises |-> TRUE, result |-> NoResult]}
                  \cup {[raises |-> FALSE, result |-> res] : res \in CrawlResults}

\* Exceptions, tagged with the attempt (1-based) in which they were raised.
Exc(type, attempt, status_code, detail) ==
    [type |-> type, attempt |-> attempt, status_code |-> status_code, detail |-> detail]

NoDetail == [error |-> NoValue, status_code |-> 0]

NoExc == Exc("none", 0, 0, NoDetail)

\* Lines 97-108: the success payload.  metadata.get on None and
\* markdown_v2.raw_markdown on None raise AttributeError.
MappingRaises(res) == IsNone(res.metadata) \/ IsNone(res.markdown_v2)

ResultMapper_title_as_markdown(res) ==
    [success |-> TRUE,
     title |-> Get(res.metadata, "og:title", NoValue),
     description |-> Get(res.metadata, "og:description", NoValue),
     type |-> Get(res.metadata, "og:type", NoValue),
     image |-> Get(res.metadata, "og:image", NoValue),
     url |-> Get(res.metadata, "og:url", NoValue),
     site_name |-> Get(res.metadata, "og:site_name", NoValue),
     author |-> Get(res.metadata, "author", NoValue),
     keywords |-> Get(res.metadata, "keywords", NoValue),
     raw_markdown |-> Get(res.metadata, "og:title", NoValue)]

ResultMapper_author_from_og(res) ==
    [success |-> TRUE,
     title |-> Get(res.metadata, "og:title", NoValue),
     description |-> Get(res.metadata, "og:description", NoValue),
     type |-> Get(res.metadata, "og:type", NoValue),
     image |-> Get(res.metadata, "og:image", NoValue),
     url |-> Get(res.metadata, "og:url", NoValue),
     site_name |-> Get(res.metadata, "og:site_name", NoValue),
     author |-> Get(res.metadata, "og:author", NoValue),
     keywords |-> Get(res.metadata, "keywords", NoValue),
     raw_markdown |-> res.markdown_v2.raw_markdown]

ResultMapper(res) ==
    [success |-> TRUE,
     title |-> Get(res.metadata, "og:title", NoValue),
     description |-> Get(res.metadata, "og:description", NoValue),
     type |-> Get(res.metadata, "og:type", NoValue),
     image |-> Get(res.metadata, "og:image", NoValue),
     url |-> Get(res.metadata, "og:url", NoValue),
     site_name |-> Get(res.metadata, "og:site_name", NoValue),
     author |-> Get(res.metadata, "author", NoValue),
     keywords |-> Get(res.metadata, "keywords", NoValue),
     raw_markdown |-> res.markdown_v2.raw_markdown]

\* Lines 114-118: the terminal failure payload.
FailurePayload(e) == [success |-> FALSE, message |-> e, content |-> None]

\* Lines 84-108, the body of the `async with`: what leaves the block once
\* arun has completed with the given outcome, in attempt number `attempt`.
Leave(kind, value, exc) == [kind |-> kind, value |-> value, exc |-> exc]

NoPending == Leave("none", None, NoExc)

WithBody(outcome, attempt) ==
    IF outcome.raises
      THEN Leave("raise", None, Exc("EngineError", attempt, 0, NoDetail))
    ELSE IF ~outcome.result.success
      THEN Leave("raise", None,
                 Exc("HTTPException", attempt, 400,
                     [error |-> outcome.result.error_message,
                      status_code |-> outcome.result.status_code]))
    ELSE IF MappingRaises(outcome.result)
      THEN Leave("raise", None, Exc("AttributeError", attempt, 0, NoDetail))
    ELSE Leave("return", ResultMapper(outcome.result), NoExc)

\* Line 110: `except Exception` catches every exception class raised in the
\* block, HTTPException included.
Catches_not_attribute(e) == e.type \in {"EngineError", "StartError", "HTTPException"}

Catches_not_http(e) == e.type \in {"EngineError", "StartError", "AttributeError"}

Catches(e) == e.type \in {"EngineError", "StartError", "HTTPException", "AttributeError"}

\* Line 81: range(max_retries).  Line 112: i == max_retries - 1.
InRange(j) == j < max_retries

IsLastAttempt_off_by_one(j) == j = max_retries

IsLastAttempt_one_early(j) == j = max_retries - 2

IsLastAttempt(j) == j = max_retries - 1

\* ------------------------------------------------------------------ state
VARIABLES
    pc,         \* where each request's handling stands
    req,        \* the HTTP request as received
    cfg,        \* browser_config / crawler_config built by crawl()
    i,          \* the loop variable of crawl()
    calls,      \* Crawl Engine invocations made for the request
    engine_args,\* what the latest invocation was passed (lines 83, 85, 86)
    sessions,   \* AsyncWebCrawler sessions the request holds open
    result,     \* the CrawlResult of the current attempt
    pending,    \* what is leaving the `async with` block
    ex,         \* the exception bound by `except Exception as ex`
    failed,     \* failed attempts reported by the handler (line 111)
    slept,      \* seconds spent in time.sleep
    responses,  \* HTTP responses sent for the request
    sleeper     \* the request whose time.sleep holds the event loop, or 0

vars == <<pc, req, cfg, i, calls, engine_args, sessions, result, pending, ex, failed,
          slept, responses, sleeper>>

NoRequest == [method |-> "none", authorization |-> [present |-> FALSE, scheme |-> "", credentials |-> ""],
              body |-> None]

NoConfig == [browser_config |-> None, crawler_config |-> None]

NoArgs == [url |-> NoValue, browser_config |-> None, config |-> None]

\* AsyncWebCrawler(config=browser_config) and arun(url=request.url,
\* config=crawler_config): the arguments are the handler's locals.
EngineArgs(url, config) ==
    [url |-> url, browser_config |-> config.browser_config, config |-> config.crawler_config]

Init ==
    /\ pc = [r \in Requests |-> "idle"]
    /\ req = [r \in Requests |-> NoRequest]
    /\ cfg = [r \in Requests |-> NoConfig]
    /\ i = [r \in Requests |-> 0]
    /\ calls = [r \in Requests |-> 0]
    /\ engine_args = [r \in Requests |-> NoArgs]
    /\ sessions = [r \in Requests |-> 0]
    /\ result = [r \in Requests |-> NoResult]
    /\ pending = [r \in Requests |-> NoPending]
    /\ ex = [r \in Requests |-> NoExc]
    /\ failed = [r \in Requests |-> 0]
    /\ slept = [r \in Requests |-> 0]
    /\ responses = [r \in Requests |-> << >>]
    /\ sleeper = 0

\* The event loop runs a handler step only while no handler is inside a
\* blocking call.
LoopFree == sleeper = 0

\* Requests are numbered in the order the service receives them.
NextToArrive(r) == pc[r] = "idle" /\ \A q \in Requests : q < r => pc[q] # "idle"

Response(status, json, body) == [status |-> status, json |-> json, body |-> body]

Respond(r, status, json, body) ==
    responses' = [responses EXCEPT ![r] = Append(@, Response(status, json, body))]

\* --------------------------------------------------------- authentication
\* security = HTTPBearer() (line 17) runs before verify_auth and rejects a
\* request that has no Authorization header or a non-bearer scheme by
\* itself.  The status of that rejection is the library's: 403 in FastAPI
\* releases before 0.122, 401 from then on; the repository pins no version.
NotAuthenticatedStatuses == {401, 403}

HTTPBearer(authorization) ==
    authorization.present /\ Lower(authorization.scheme) = "bearer"

\* Lines 20-24: TRUE when verify_auth returns True, FALSE when it raises
\* HTTPException(401).
verify_auth(credentials) ==
    ~(Lower(credentials.scheme) # "bearer" \/ credentials.credentials # PRIMER_API_TOKEN)

HealthStatus_guarded(authorization) ==
    IF HTTPBearer(authorization) /\ verify_auth(authorization) THEN 200 ELSE 401

\* Line 32: the /health route declares no dependency, so the Authorization
\* header is not looked at and the handler's return value is sent with 200.
HealthStatus(authorization) == 200

\* ---------------------------------------------------------------- actions
\* GET /health (lines 32-34).
health_check(r, authorization) ==
    /\ LoopFree
    /\ NextToArrive(r)
    /\ req' = [req EXCEPT ![r] = [method |-> "GET /health",
                                  authorization |-> authorization, body |-> None]]
    /\ Respond(r, HealthStatus(authorization), TRUE, [status |-> "Service is running!"])
    /\ pc' = [pc EXCEPT ![r] = "done"]
    /\ UNCHANGED <<cfg, i, calls, engine_args, sessions, result, pending, ex, failed, slept, sleeper>>

\* POST /crawl arrives (line 36): the dependency verify_auth and the body
\* schema are resolved before the handler runs; a failed dependency wins
\* over a schema error.
post_crawl(r, authorization, body) ==
    /\ LoopFree
    /\ NextToArrive(r)
    /\ req' = [req EXCEPT ![r] = [method |-> "POST /crawl",
                                  authorization |-> authorization, body |-> body]]
    /\ IF ~HTTPBearer(authorization)
         THEN /\ \E status \in NotAuthenticatedStatuses :
                    Respond(r, status, TRUE, [detail |-> "Not authenticated"])
              /\ pc' = [pc EXCEPT ![r] = "done"]
       ELSE IF ~verify_auth(authorization)
         THEN /\ Respond(r, 401, TRUE, [detail |-> "Invalid or missing token"])
              /\ pc' = [pc EXCEPT ![r] = "done"]
       ELSE IF ~SchemaValid(body)
         THEN /\ Respond(r, 422, TRUE, [detail |-> "Field required"])
              /\ pc' = [pc EXCEPT ![r] = "done"]
       ELSE /\ pc' = [pc EXCEPT ![r] = "handler"]
            /\ UNCHANGED responses
    /\ UNCHANGED <<cfg, i, calls, engine_args, sessions, result, pending, ex, failed, slept, sleeper>>

\* Line 83: an attempt begins by constructing the crawler and awaiting its
\* __aenter__; this is the Crawl Engine invocation of the attempt.
BeginAttempt_fresh_browser(r, j, config) ==
    /\ i' = [i EXCEPT ![r] = j]
    /\ calls' = [calls EXCEPT ![r] = @ + 1]
    /\ engine_args' = [engine_args EXCEPT ![r] =
            IF j = 0 THEN EngineArgs(req[r].body.url, config)
                     ELSE EngineArgs(req[r].body.url,
                                     [config EXCEPT !.browser_config = BrowserConfig(None)])]
    /\ pc' = [pc EXCEPT ![r] = "entering"]

BeginAttempt(r, j, config) ==
    /\ i' = [i EXCEPT ![r] = j]
    /\ calls' = [calls EXCEPT ![r] = @ + 1]
    /\ engine_args' = [engine_args EXCEPT ![r] = EngineArgs(req[r].body.url, config)]
    /\ pc' = [pc EXCEPT ![r] = "entering"]

\* Lines 37-83: the handler normalises the configuration and enters the
\* loop.  An exception raised by lines 38-78 is outside the try: the
\* framework answers 500 with a plain-text body.
crawl_normalize_in_try(r) ==
    /\ LoopFree
    /\ pc[r] = "handler"
    /\ LET n == Normalize(CrawlRequest(req[r].body))
       IN  IF n.error # "none"
             THEN /\ ex' = [ex EXCEPT ![r] = Exc(n.error, 0, 0, NoDetail)]
                  /\ failed' = [failed EXCEPT ![r] = @ + 1]
                  /\ pc' = [pc EXCEPT ![r] = "sleeping"]
                  /\ sleeper' = r
                  /\ UNCHANGED <<cfg, i, calls, engine_args, responses>>
             ELSE /\ cfg' = [cfg EXCEPT ![r] = [browser_config |-> n.browser_config,
                                                crawler_config |-> n.crawler_config]]
                  /\ BeginAttempt(r, 0, [browser_config |-> n.browser_config,
                                          crawler_config |-> n.crawler_config])
                  /\ UNCHANGED <<responses, ex, failed, sleeper>>
    /\ UNCHANGED <<req, sessions, result, pending, slept>>

crawl(r) ==
    /\ LoopFree
    /\ pc[r] = "handler"
    /\ LET n == Normalize(CrawlRequest(req[r].body))
       IN  IF n.error # "none"
             THEN /\ Respond(r, 500, FALSE, [text |-> "Internal Server Error"])
                  /\ pc' = [pc EXCEPT ![r] = "done"]
                  /\ UNCHANGED <<cfg, i, calls, engine_args>>
             ELSE /\ cfg' = [cfg EXCEPT ![r] = [browser_config |-> n.browser_config,
                                                crawler_config |-> n.crawler_config]]
                  /\ BeginAttempt(r, 0, [browser_config |-> n.browser_config,
                                          crawler_config |-> n.crawler_config])
                  /\ UNCHANGED responses
    /\ UNCHANGED <<req, sessions, result, pending, ex, failed, slept, sleeper>>

\* Lines 110-120: the except clause.  It sets pc, ex, failed,
\* result, responses and sleeper.  result is not read again before line 84
\* rebinds it, so the clause is modelled as dropping it.  An exception the clause does not catch leaves
\* the handler: the framework answers an HTTPException with its status and
\* anything else with 500.  time.sleep(5) is a blocking call: it holds the
\* event loop's thread until it returns.
except_handler(r, e) ==
    IF ~Catches(e)
      THEN /\ IF e.type = "HTTPException"
                THEN Respond(r, e.status_code, TRUE, [detail |-> e.detail])
                ELSE Respond(r, 500, FALSE, [text |-> "Internal Server Error"])
           /\ pc' = [pc EXCEPT ![r] = "done"]
           /\ UNCHANGED <<ex, failed, result, sleeper>>
      ELSE /\ ex' = [ex EXCEPT ![r] = e]
           /\ result' = [result EXCEPT ![r] = NoResult]
           /\ failed' = [failed EXCEPT ![r] = @ + 1]
           /\ IF IsLastAttempt(i[r])
                THEN /\ Respond(r, 200, TRUE, FailurePayload(e))
                     /\ pc' = [pc EXCEPT ![r] = "done"]
                     /\ UNCHANGED sleeper
                ELSE /\ pc' = [pc EXCEPT ![r] = "sleeping"]
                     /\ sleeper' = r
                     /\ UNCHANGED responses

\* Line 83: __aenter__ completes.  It either opens the session or raises,
\* and then nothing was opened.
enter(r, started) ==
    /\ LoopFree
    /\ pc[r] = "entering"
    /\ IF started
         THEN /\ sessions' = [sessions EXCEPT ![r] = @ + 1]
              /\ pc' = [pc EXCEPT ![r] = "running"]
              /\ UNCHANGED <<ex, failed, result, responses, sleeper>>
         ELSE /\ except_handler(r, Exc("StartError", i[r] + 1, 0, NoDetail))
              /\ UNCHANGED sessions
    /\ UNCHANGED <<req, cfg, i, calls, engine_args, pending, slept>>

arun_shared_result(r, outcome) ==
    /\ LoopFree
    /\ pc[r] = "running"
    /\ result' = [q \in Requests |-> outcome.result]
    /\ pending' = [pending EXCEPT ![r] = WithBody(outcome, i[r] + 1)]
    /\ pc' = [pc EXCEPT ![r] = "exiting"]
    /\ UNCHANGED <<req, cfg, i, calls, engine_args, sessions, ex, failed, slept, responses, sleeper>>

\* Lines 84-108: arun completes and the rest of the block runs up to the
\* point where control leaves the `async with`.
arun(r, outcome) ==
    /\ LoopFree
    /\ pc[r] = "running"
    /\ result' = [result EXCEPT ![r] = outcome.result]
    /\ pending' = [pending EXCEPT ![r] = WithBody(outcome, i[r] + 1)]
    /\ pc' = [pc EXCEPT ![r] = "exiting"]
    /\ UNCHANGED <<req, cfg, i, calls, engine_args, sessions, ex, failed, slept, responses, sleeper>>

Release_leak(n) == n

\* __aexit__ closes the session.
Release(n) == n - 1

\* Line 83: __aexit__ completes, on a return as on an exception; then the
\* return value is sent, or the except clause runs.
exit(r) ==
    /\ LoopFree
    /\ pc[r] = "exiting"
    /\ sessions' = [sessions EXCEPT ![r] = Release(@)]
    /\ pending' = [pending EXCEPT ![r] = NoPending]
    /\ IF pending[r].kind = "return"
         THEN /\ Respond(r, 200, TRUE, pending[r].value)
              /\ pc' = [pc EXCEPT ![r] = "done"]
              /\ UNCHANGED <<ex, failed, result, sleeper>>
         ELSE except_handler(r, pending[r].exc)
    /\ UNCHANGED <<req, cfg, i, calls, engine_args, slept>>

Elapsed_at_once(seconds) == seconds

\* Line 120: time.sleep(5) returns once SLEEP_SECONDS have passed.
Elapsed(seconds) == seconds + SLEEP_SECONDS

\* Line 120 returns after SLEEP_SECONDS, the except clause ends (which
\* unbinds ex) and the loop goes on (line 81): the next attempt begins, or
\* range(max_retries) is exhausted and the handler returns None.
wake(r) ==
    /\ sleeper = r
    /\ pc[r] = "sleeping"
    /\ sleeper' = 0
    /\ slept' = [slept EXCEPT ![r] = Elapsed(@)]
    /\ IF InRange(i[r] + 1)
         THEN /\ BeginAttempt(r, i[r] + 1, cfg[r])
              /\ UNCHANGED responses
         ELSE /\ Respond(r, 200, TRUE, None)
              /\ pc' = [pc EXCEPT ![r] = "done"]
              /\ UNCHANGED <<i, calls, engine_args>>
    /\ ex' = [ex EXCEPT ![r] = NoExc]
    /\ UNCHANGED <<req, cfg, sessions, result, pending, failed>>

\* Every step request r can take.
Step(r) ==
    \/ \E authorization \in Authorizations : health_check(r, authorization)
    \/ \E input \in CrawlInputs : post_crawl(r, input.authorization, input.body)
    \/ crawl(r)
    \/ \E started \in BOOLEAN : enter(r, started)
    \/ \E outcome \in EngineOutcomes : arun(r, outcome)
    \/ exit(r)
    \/ wake(r)

Next == \E r \in Requests : Step(r)

Spec == Init /\ [][Next]_vars

\* Each engine call, each session start and close and each sleep completes,
\* and the event loop runs every handler that is ready.
FairSpec == Spec /\ \A r \in Requests : WF_vars(crawl(r) \/ (\E started \in BOOLEAN : enter(r, started))
                                              \/ (\E outcome \in EngineOutcomes : arun(r, outcome))
                                              \/ exit(r) \/ wake(r))

TypeOK ==
    /\ pc \in [Requests -> {"idle", "handler", "entering", "running", "exiting",
                            "sleeping", "done"}]
    /\ i \in [Requests -> 0..max_retries]
    /\ calls \in [Requests -> 0..(max_retries + 1)]
    /\ sessions \in [Requests -> 0..1]
    /\ sleeper \in {0} \cup Requests

\* ------------------------------------------------ result mapping alone
\* The metadata keys lines 99-106 read, with a value of their own each.
MetadataKeys == {"og:title", "og:description", "og:type", "og:image", "og:url",
                 "og:site_name", "author", "keywords"}

MetadataValue(key) == CASE key = "og:title" -> "T"
                        [] key = "og:description" -> "D"
                        [] key = "og:type" -> "Y"
                        [] key = "og:image" -> "I"
                        [] key = "og:url" -> "U"
                        [] key = "og:site_name" -> "S"
                        [] key = "author" -> "A"
                        [] key = "keywords" -> "K"

\* A successful CrawlResult whose metadata has exactly the given keys.
ResultWith(keys) ==
    [success |-> TRUE, error_message |-> NoValue, status_code |-> 200,
     metadata |-> [k \in keys |-> MetadataValue(k)],
     markdown_v2 |-> [raw_markdown |-> "md1"]]

\* Request 1 is an authenticated crawl whose first attempt has its session
\* open and awaits arun (the state after post_crawl, crawl and enter).
MapInit ==
    LET n == Normalize(CrawlRequest(FullBody))
    IN  /\ pc = [r \in Requests |-> IF r = 1 THEN "running" ELSE "idle"]
        /\ req = [r \in Requests |->
                    IF r = 1 THEN [method |-> "POST /crawl",
                                   authorization |-> [present |-> TRUE, scheme |-> "Bearer",
                                                      credentials |-> PRIMER_API_TOKEN],
                                   body |-> FullBody]
                             ELSE NoRequest]
        /\ cfg = [r \in Requests |->
                    IF r = 1 THEN [browser_config |-> n.browser_config,
                                   crawler_config |-> n.crawler_config]
                             ELSE NoConfig]
        /\ i = [r \in Requests |-> 0]
        /\ calls = [r \in Requests |-> IF r = 1 THEN 1 ELSE 0]
        /\ engine_args = [r \in Requests |->
                            IF r = 1 THEN EngineArgs(FullBody.url,
                                                     [browser_config |-> n.browser_config,
                                                      crawler_config |-> n.crawler_config])
                                     ELSE NoArgs]
        /\ sessions = [r \in Requests |-> IF r = 1 THEN 1 ELSE 0]
        /\ result = [r \in Requests |-> NoResult]
        /\ pending = [r \in Requests |-> NoPending]
        /\ ex = [r \in Requests |-> NoExc]
        /\ failed = [r \in Requests |-> 0]
        /\ slept = [r \in Requests |-> 0]
        /\ responses = [r \in Requests |-> << >>]
        /\ sleeper = 0

\* arun returns a successful result with any subset of the metadata keys,
\* and the block is left.
MapNext ==
    \/ \E keys \in SUBSET MetadataKeys : arun(1, [raises |-> FALSE, result |-> ResultWith(keys)])
    \/ exit(1)

MapSpec == MapInit /\ [][MapNext]_vars

\* ------------------------------------------------------- the retry loops
\* Every request is an authenticated crawl with a full configuration that
\* the service has received and whose handler is about to run (the state
\* after one post_crawl per request).
LiveInit ==
    /\ pc = [r \in Requests |-> "handler"]
    /\ req = [r \in Requests |->
                [method |-> "POST /crawl",
                 authorization |-> [present |-> TRUE, scheme |-> "Bearer",
                                    credentials |-> PRIMER_API_TOKEN],
                 body |-> FullBody]]
    /\ cfg = [r \in Requests |-> NoConfig]
    /\ i = [r \in Requests |-> 0]
    /\ calls = [r \in Requests |-> 0]
    /\ engine_args = [r \in Requests |-> NoArgs]
    /\ sessions = [r \in Requests |-> 0]
    /\ result = [r \in Requests |-> NoResult]
    /\ pending = [r \in Requests |-> NoPending]
    /\ ex = [r \in Requests |-> NoExc]
    /\ failed = [r \in Requests |-> 0]
    /\ slept = [r \in Requests |-> 0]
    /\ responses = [r \in Requests |-> << >>]
    /\ sleeper = 0

\* One outcome of each kind: arun raises, reports success=False, returns a
\* result that maps, returns a result whose mapping raises.
LiveOutcomes ==
    { o \in EngineOutcomes :
        \/ o.raises
        \/ ~o.result.success
        \/ ~IsNone(o.result.markdown_v2) /\ o.result.markdown_v2.raw_markdown = "md1" }

\* The steps of the handler of request r once the request is received.
Handle(r) ==
    \/ crawl(r)
    \/ \E started \in BOOLEAN : enter(r, started)
    \/ \E outcome \in LiveOutcomes : arun(r, outcome)
    \/ exit(r)
    \/ wake(r)

LiveNext == \E r \in Requests : Handle(r)

\* Each engine call, each session start and close and each sleep completes,
\* and the event loop runs every handler that is ready.
LiveSpec == LiveInit /\ [][LiveNext]_vars /\ \A r \in Requests : WF_vars(Handle(r))

\* ----------------------------------------------------------------- claims
IsCrawl(r) == req[r].method = "POST /crawl"

\* The request carries a bearer token equal to the configured secret.
TokenMatches(r) ==
    /\ req[r].authorization.present
    /\ req[r].authorization.scheme \in {"Bearer", "bearer"}
    /\ req[r].authorization.credentials = PRIMER_API_TOKEN

\* An authenticated, schema-valid POST /crawl.
ValidCrawl(r) == IsCrawl(r) /\ TokenMatches(r) /\ "url" \in DOMAIN req[r].body

IsSuccessPayload(resp) ==
    /\ resp.status = 200 /\ resp.json
    /\ "success" \in DOMAIN resp.body /\ resp.body.success = TRUE
    /\ DOMAIN resp.body = {"success", "title", "description", "type", "image", "url",
                           "site_name", "author", "keywords", "raw_markdown"}

IsFailurePayload(resp) ==
    /\ resp.status = 200 /\ resp.json
    /\ DOMAIN resp.body = {"success", "message", "content"}
    /\ resp.body.success = FALSE
    /\ ~IsNone(resp.body.message)
    /\ IsNone(resp.body.content)

IsCrawlResponse(resp) == IsSuccessPayload(resp) \/ IsFailurePayload(resp)

CrawlResponseCount(r) ==
    Cardinality({k \in DOMAIN responses[r] : IsCrawlResponse(responses[r][k])})

InAttempt(r) == pc[r] \in {"entering", "running", "exiting"}

\* C1: every POST /crawl that passes authentication and schema validation
\* gets exactly one CrawlResponse (success payload or terminal failure
\* payload): never more than one, and one once the request has ended.
C1_ExactlyOneCrawlResponse ==
    \A r \in Requests :
        ValidCrawl(r) =>
            /\ CrawlResponseCount(r) <= 1
            /\ pc[r] = "done" => CrawlResponseCount(r) = 1

\* C2: the number of Crawl Engine invocations made for one request never
\* exceeds 5.
C2_AtMostFiveInvocations == \A r \in Requests : calls[r] <= 5

C2_Witness == \E r \in Requests : pc[r] = "done" /\ calls[r] = 5 /\ failed[r] = 5

\* C3 as stated: when attempts 1..k-1 have failed and the engine returns
\* success=true on attempt k, the request ends right there with k
\* invocations and the success payload carrying that result's markdown.
C3_SuccessTrueEndsRequest ==
    [][\A r \in Requests :
        (pc[r] = "exiting" /\ result[r].success /\ failed[r] = i[r] /\ pc'[r] # "exiting")
        => /\ pc'[r] = "done"
           /\ calls'[r] = i[r] + 1
           /\ Len(responses'[r]) = 1
           /\ IsSuccessPayload(responses'[r][1])]_vars

\* C3 amended: when attempts 1..k-1 have failed and the engine returns, on
\* attempt k, success=true with a metadata mapping and a markdown object,
\* the request ends right there with exactly k invocations and one response,
\* the success payload whose raw_markdown is that result's markdown; a
\* request that has ended makes no further invocation.
C3_WellFormedSuccessEndsRequest ==
    [][\A r \in Requests :
        /\ (pc[r] = "exiting" /\ result[r].success /\ ~MappingRaises(result[r])
              /\ failed[r] = i[r] /\ pc'[r] # "exiting")
           => /\ pc'[r] = "done"
              /\ calls'[r] = i[r] + 1
              /\ Len(responses'[r]) = 1
              /\ IsSuccessPayload(responses'[r][1])
              /\ responses'[r][1].body.raw_markdown = result[r].markdown_v2.raw_markdown
        /\ pc[r] = "done" => (pc'[r] = "done" /\ calls'[r] = calls[r]
                                /\ responses'[r] = responses[r])]_vars

C3_Witness ==
    \E r \in Requests :
        /\ pc[r] = "done" /\ calls[r] = 5 /\ failed[r] = 4
        /\ Len(responses[r]) = 1
        /\ IsSuccessPayload(responses[r][1])
        /\ responses[r][1].body.raw_markdown = "md2"

\* C4: a request whose 5 attempts all failed has made exactly 5 engine
\* invocations and has ended with the terminal failure payload
\* {success: false, message: non-null, content: null}.
C4_AllAttemptsFail ==
    \A r \in Requests :
        failed[r] = 5 =>
            /\ pc[r] = "done"
            /\ calls[r] = 5
            /\ Len(responses[r]) = 1
            /\ IsFailurePayload(responses[r][1])

C4_Witness ==
    \E r \in Requests :
        /\ failed[r] = 5 /\ pc[r] = "done" /\ ex[r].type = "EngineError"
        /\ IsFailurePayload(responses[r][1])

C6_BadTokenIs401 ==
    \A r \in Requests :
        (IsCrawl(r) /\ ~TokenMatches(r)) =>
            /\ calls[r] = 0
            /\ pc[r] = "done"
            /\ Len(responses[r]) = 1
            /\ responses[r][1].status = 401

\* C7: every schema-valid POST /crawl with the right token ends with a JSON
\* object that has a boolean success field.
C7_ValidCrawlGetsSuccessField ==
    \A r \in Requests :
        (ValidCrawl(r) /\ pc[r] = "done") =>
            /\ Len(responses[r]) = 1
            /\ responses[r][1].json
            /\ "success" \in DOMAIN responses[r][1].body
            /\ responses[r][1].body.success \in BOOLEAN

\* C8: while a request is in its inter-attempt delay, every other request
\* that has not ended can take a step.
C8_DelayDoesNotStall ==
    \A r, q \in Requests :
        (pc[r] = "sleeping" /\ q # r /\ pc[q] # "done") => ENABLED Step(q)

\* C9: a request holds at most one open engine session, holds one only
\* between the start and the end of an attempt's `async with`, and holds
\* none while it delays, when the next attempt begins or once it has
\* responded.
C9_SessionPerAttempt ==
    \A r \in Requests :
        /\ sessions[r] \in {0, 1}
        /\ pc[r] \in {"running", "exiting"} => sessions[r] = 1
        /\ pc[r] \in {"idle", "handler", "entering", "sleeping", "done"} => sessions[r] = 0
        /\ Len(responses[r]) > 0 => sessions[r] = 0

C9_Witness ==
    \E r \in Requests :
        /\ pc[r] = "sleeping" /\ sessions[r] = 0 /\ ex[r].type = "EngineError"
        /\ \E q \in Requests : pc[q] = "done" /\ calls[q] = 2 /\ sessions[q] = 0
                                 /\ IsSuccessPayload(responses[q][1])

\* C10: the attempts of a request are sequential.  At most one attempt is
\* unfinished at any time, and an attempt after the first begins only out of
\* the delay that followed the failure of the previous one, when every
\* earlier attempt has failed and one full delay per failure has elapsed.
C10_SequentialAttempts ==
    [][\A r \in Requests :
        /\ calls'[r] - failed'[r] \in {0, 1}
        /\ InAttempt(r)' => calls'[r] = failed'[r] + 1
        /\ calls'[r] # calls[r] =>
              /\ calls'[r] = calls[r] + 1
              /\ ~InAttempt(r)
              /\ sessions[r] = 0
              /\ calls[r] > 0 =>
                    /\ pc[r] = "sleeping"
                    /\ failed[r] = calls[r]
                    /\ slept'[r] = 5 * calls[r]]_vars

C10_Witness ==
    \E r \in Requests :
        pc[r] = "entering" /\ calls[r] = 3 /\ failed[r] = 2 /\ slept[r] = 10

\* The defaults the specification documents for an omitted field, and the
\* configuration a request body yields when each omitted field, and each
\* field of an omitted object, takes its default.
EmptyMapping == [k \in {} |-> TRUE]

DocumentedBrowserConfig == [verbose |-> TRUE, headless |-> FALSE, text_mode |-> TRUE]

DocumentedContentFilter ==
    [threshold |-> 9, threshold_type |-> "dynamic", min_word_threshold |-> 50]

DocumentedMarkdownGenerator ==
    [ignore_links |-> TRUE, ignore_images |-> TRUE, escape_html |-> TRUE]

DocumentedRunConfig ==
    [cache_mode |-> "bypass", verbose |-> TRUE, wait_until |-> "load",
     only_text |-> TRUE, excluded_tags |-> DefaultExcludedTags,
     exclude_external_links |-> TRUE, exclude_social_media_links |-> TRUE,
     exclude_external_images |-> TRUE, remove_overlay_elements |-> TRUE,
     page_timeout |-> 180000]

WithDefaults(defaults, given) == [k \in DOMAIN defaults |-> Get(given, k, defaults[k])]

DocumentedConfig(body) ==
    LET bc == Get(body, "browser_config", EmptyMapping)
        cc == Get(body, "crawler_config", EmptyMapping)
        cf == Get(cc, "content_filter", EmptyMapping)
        mg == Get(cc, "markdown_generator", EmptyMapping)
        run == WithDefaults(DocumentedRunConfig, cc)
    IN  [browser_config |-> WithDefaults(DocumentedBrowserConfig, bc),
         crawler_config |->
            [k \in DOMAIN run \cup {"content_filter", "markdown_generator"} |->
                CASE k = "content_filter" -> WithDefaults(DocumentedContentFilter, cf)
                  [] k = "markdown_generator" -> WithDefaults(DocumentedMarkdownGenerator, mg)
                  [] OTHER -> run[k]]]

\* C11: for every authenticated, schema-valid request, once the handler has
\* run its normalisation the configuration exists and carries, for every
\* field that is omitted or whose containing object is omitted, the
\* documented default (cache mode included), and no error has ended the
\* request before the first attempt.
C11_DefaultsForOmittedFields ==
    \A r \in Requests :
        (ValidCrawl(r) /\ pc[r] \notin {"idle", "handler"}) =>
            /\ calls[r] >= 1
            /\ cfg[r] = DocumentedConfig(req[r].body)

\* C12: a terminal failure payload carries, as message, the exception of the
\* 5th attempt, the one the except clause has just caught; and every failed
\* attempt has been reported (line 111) before the delay, the next attempt
\* or the response that follows it.
C12_LastFailureReported ==
    \A r \in Requests :
        /\ \A k \in DOMAIN responses[r] :
              IsFailurePayload(responses[r][k]) =>
                  /\ responses[r][k].body.message = ex[r]
                  /\ responses[r][k].body.message.attempt = 5
                  /\ failed[r] = 5
        /\ pc[r] = "sleeping" => (failed[r] = calls[r] /\ ex[r].attempt = calls[r])
        /\ InAttempt(r) => failed[r] = calls[r] - 1
        /\ (pc[r] = "done" /\ calls[r] > 0) =>
              \/ failed[r] = calls[r] /\ IsFailurePayload(responses[r][1])
              \/ failed[r] = calls[r] - 1 /\ IsSuccessPayload(responses[r][1])

C12_Witness ==
    \E r \in Requests :
        /\ pc[r] = "done" /\ failed[r] = 5
        /\ IsFailurePayload(responses[r][1])
        /\ responses[r][1].body.message.type = "AttributeError"
        /\ responses[r][1].body.message.attempt = 5

\* C13: every GET /health that is answered is answered once, with status 200
\* and the body {status: "Service is running!"}, whatever Authorization
\* header it carried and whatever the POST /crawl requests are doing.
C13_HealthAlways200 ==
    \A r \in Requests :
        req[r].method = "GET /health" =>
            /\ pc[r] = "done"
            /\ calls[r] = 0
            /\ responses[r] = << Response(200, TRUE, [status |-> "Service is running!"]) >>

C13_Witness ==
    \E r, q \in Requests :
        /\ req[r].method = "GET /health"
        /\ req[r].authorization.present /\ req[r].authorization.credentials = "wrong"
        /\ Len(responses[r]) = 1
        /\ IsCrawl(q) /\ pc[q] = "running" /\ calls[q] = 1

\* The response field each metadata key is mapped to (specification 4.3).
FieldOfKey == [k \in MetadataKeys |->
                 CASE k = "og:title" -> "title"
                   [] k = "og:description" -> "description"
                   [] k = "og:type" -> "type"
                   [] k = "og:image" -> "image"
                   [] k = "og:url" -> "url"
                   [] k = "og:site_name" -> "site_name"
                   [] k = "author" -> "author"
                   [] k = "keywords" -> "keywords"]

\* C14: for a successful result and every subset of the eight metadata keys,
\* mapping raises nothing and the response has all eight fields, each the
\* metadata value when the key is present and null when it is absent.
C14_MetadataMappingTotal ==
    \A r \in Requests :
        (/\ result[r].success
         /\ ~IsNone(result[r].metadata)
         /\ ~IsNone(result[r].markdown_v2)) =>
            /\ pc[r] = "exiting" =>
                  /\ pending[r].kind = "return"
                  /\ \A k \in MetadataKeys :
                        /\ FieldOfKey[k] \in DOMAIN pending[r].value
                        /\ pending[r].value[FieldOfKey[k]] =
                              IF k \in DOMAIN result[r].metadata
                                THEN result[r].metadata[k] ELSE NoValue
            /\ pc[r] = "done" =>
                  /\ Len(responses[r]) = 1
                  /\ IsSuccessPayload(responses[r][1])
                  /\ \A k \in MetadataKeys :
                        responses[r][1].body[FieldOfKey[k]] =
                              IF k \in DOMAIN result[r].metadata
                                THEN result[r].metadata[k] ELSE NoValue

C14_Witness ==
    \E r \in Requests :
        /\ pc[r] = "done"
        /\ DOMAIN result[r].metadata = {"og:image", "author"}
        /\ responses[r][1].body.title = NoValue
        /\ responses[r][1].body.image = "I"
        /\ responses[r][1].body.author = "A"

\* C15: no delay follows the 5th attempt.  A request whose 5 attempts failed
\* has ended and has slept 4 delays; a request is never in a delay after its
\* 5th failure; and a request answered with the success payload of attempt k
\* has slept k-1 delays.
C15_NoDelayAfterLastAttempt ==
    \A r \in Requests :
        /\ failed[r] = 5 => (pc[r] = "done" /\ slept[r] = 4 * 5)
        /\ pc[r] = "sleeping" => (failed[r] <= 4 /\ slept[r] = (failed[r] - 1) * 5)
        /\ (pc[r] = "done" /\ calls[r] > 0 /\ IsSuccessPayload(responses[r][1]))
              => slept[r] = (calls[r] - 1) * 5

C15_Witness ==
    \E r, q \in Requests :
        /\ pc[r] = "done" /\ failed[r] = 5 /\ slept[r] = 20
        /\ IsFailurePayload(responses[r][1])
        /\ pc[q] = "done" /\ calls[q] = 3 /\ slept[q] = 10
        /\ IsSuccessPayload(responses[q][1])

\* C16: the url, the browser configuration and the run configuration passed
\* to the engine are those computed before the first attempt, on every
\* attempt: once the first attempt has begun, no step changes the handler's
\* configuration, the request or the arguments of the invocations.
C16_SameArgumentsEveryAttempt ==
    [][\A r \in Requests :
        /\ calls[r] >= 1 =>
              /\ cfg'[r] = cfg[r]
              /\ req'[r] = req[r]
              /\ engine_args'[r] = engine_args[r]
        /\ calls'[r] >= 1 =>
              /\ engine_args'[r].url = req'[r].body.url
              /\ engine_args'[r].browser_config = cfg'[r].browser_config
              /\ engine_args'[r].config = cfg'[r].crawler_config
              /\ ~IsNone(engine_args'[r].browser_config)
              /\ ~IsNone(engine_args'[r].config)]_vars

C16_Witness ==
    \E r \in Requests :
        /\ pc[r] = "entering" /\ calls[r] = 5
        /\ engine_args[r].url = "u"
        /\ engine_args[r].browser_config.headless = TRUE
        /\ engine_args[r].config.content_filter.threshold = 5

\* Everything the handler of request r holds.
Local(r) == <<pc[r], req[r], cfg[r], i[r], calls[r], engine_args[r], sessions[r],
              result[r], pending[r], ex[r], failed[r], slept[r], responses[r]>>

\* C17: concurrent requests are independent.  No step changes the state of
\* two requests (attempt counter, session, result, response, ...), and the
\* response of a crawl that made attempts is computed from its own state:
\* the success payload of its own result after its own failures plus one
\* invocation, or the failure payload of its own last exception after 5.
C17_RequestsIndependent ==
    [][\A r \in Requests :
        /\ \A q \in Requests \ {r} :
              ~(Local(r)' # Local(r) /\ Local(q)' # Local(q))
        /\ (pc'[r] = "done" /\ calls'[r] > 0) =>
              IF result'[r].success /\ ~MappingRaises(result'[r])
                THEN /\ responses'[r] = << Response(200, TRUE, ResultMapper(result'[r])) >>
                     /\ calls'[r] = failed'[r] + 1
                ELSE /\ responses'[r] = << Response(200, TRUE, FailurePayload(ex'[r])) >>
                     /\ calls'[r] = failed'[r]
                     /\ calls'[r] = 5]_vars

C17_Witness ==
    \E r, q \in Requests :
        /\ r # q
        /\ pc[r] = "exiting" /\ calls[r] = 4 /\ result[r].success
        /\ ~MappingRaises(result[r]) /\ result[r].markdown_v2.raw_markdown = "md2"
        /\ pc[q] = "running" /\ calls[q] = 2 /\ sessions[q] = 1 /\ sessions[r] = 1

\* C18: under fair scheduling, with every engine call and every delay
\* completing, an authenticated crawl whose configuration normalises is
\* eventually answered with a payload (success or terminal failure): the
\* loop neither runs forever nor ends without one.
C18_EventuallyAnswered ==
    \A r \in Requests :
        (/\ pc[r] = "handler"
         /\ Normalize(CrawlRequest(req[r].body)).error = "none")
        ~> (/\ pc[r] = "done"
            /\ Len(responses[r]) = 1
            /\ IsCrawlResponse(responses[r][1]))

C18_Witness ==
    \E r \in Requests :
        /\ pc[r] = "done" /\ calls[r] = 5 /\ slept[r] = 20
        /\ Len(responses[r]) = 1
        /\ IsCrawlResponse(responses[r][1])

\* C19: an error raised while the success payload is built from a result
\* with success=true is a failed attempt like any other.  Before the last
\* attempt nothing is sent, the request goes into the delay and the engine
\* is invoked again after it; on the last attempt the terminal failure
\* payload with that error is sent.
C19_MappingErrorIsFailedAttempt ==
    [][\A r \in Requests :
        /\ (pc[r] = "exiting" /\ result[r].success /\ MappingRaises(result[r])
              /\ pc'[r] # "exiting")
           => IF i[r] < 4
                THEN /\ pc'[r] = "sleeping"
                     /\ ex'[r].type = "AttributeError"
                     /\ failed'[r] = failed[r] + 1
                     /\ responses'[r] = << >>
                ELSE /\ pc'[r] = "done"
                     /\ calls'[r] = 5
                     /\ Len(responses'[r]) = 1
                     /\ IsFailurePayload(responses'[r][1])
                     /\ responses'[r][1].body.message.type = "AttributeError"
        /\ (pc[r] = "sleeping" /\ ex[r].type = "AttributeError" /\ pc'[r] # "sleeping")
           => /\ pc'[r] = "entering"
              /\ calls'[r] = calls[r] + 1
              /\ slept'[r] = slept[r] + 5]_vars

C19_Witness ==
    \E r, q \in Requests :
        /\ pc[r] = "sleeping" /\ ex[r].type = "AttributeError" /\ calls[r] = 1
        /\ pc[q] = "done" /\ calls[q] = 5
        /\ IsFailurePayload(responses[q][1])
        /\ responses[q][1].body.message.type = "AttributeError"

\* C20: the configuration is normalised before the retry loop and outside
\* its try block.  An authenticated, schema-valid crawl whose normalisation
\* raises has ended as soon as the handler has run: the engine was never
\* invoked, no session was opened, no attempt failed or was retried, no
\* delay was taken, and its single response is the framework's 500, not a
\* CrawlResponse.
C20_NormalizationFailureEndsRequest ==
    \A r \in Requests :
        (/\ ValidCrawl(r)
         /\ pc[r] # "handler"
         /\ Normalize(CrawlRequest(req[r].body)).error # "none")
        => /\ pc[r] = "done"
           /\ calls[r] = 0
           /\ engine_args[r] = NoArgs
           /\ sessions[r] = 0
           /\ failed[r] = 0
           /\ i[r] = 0
           /\ slept[r] = 0
           /\ Len(responses[r]) = 1
           /\ responses[r][1].status = 500
           /\ ~responses[r][1].json
           /\ CrawlResponseCount(r) = 0

C20_Witness ==
    \E r, q \in Requests :
        /\ ValidCrawl(r) /\ pc[r] = "done" /\ calls[r] = 0
        /\ Normalize(CrawlRequest(req[r].body)).error = "ValueError"
        /\ responses[r][1].status = 500
        /\ ValidCrawl(q) /\ pc[q] = "done" /\ calls[q] = 0
        /\ Normalize(CrawlRequest(req[q].body)).error = "AttributeError"
        /\ responses[q][1].status = 500

====
